---- MODULE Spec2Model ----
(***************************************************************************)
(* Model of the life-calendar generator (generate_life_calendar.py) and of *)
(* the radial goal-calendar generator (generate_goal.py).                  *)
(*                                                                         *)
(* A datetime.date is represented by its proleptic Gregorian ordinal       *)
(* (0001-01-01 is 1), which orders dates as Python does; year, month, day  *)
(* and weekday are recovered with the arithmetic of the datetime module.   *)
(***************************************************************************)
EXTENDS Integers, Sequences, FiniteSets

VARIABLES
    \* generate_life_calendar.py: one run of main() or of gen_calendar()
    pc, entry, birthdate, life_expectancy, darken_until_date,
    box_size, drawn, monday, rowsDrawn, idx, date, rowCells, error,
    \* is_current_week applied on its own
    wNow, wMonth, wDay, wResult,
    \* generate_goal.py: one run of the script
    gpc, goalDate, sunday, firstweekday, ctm, stack, monthIdx, weeks, weekIdx,
    monthCells, gError

lifeVars == <<pc, entry, birthdate, life_expectancy, darken_until_date,
              box_size, drawn, monday, rowsDrawn, idx, date, rowCells, error>>
weekVars == <<wNow, wMonth, wDay, wResult>>
goalVars == <<gpc, goalDate, sunday, firstweekday, ctm, stack, monthIdx, weeks,
              weekIdx, monthCells, gError>>
vars == <<lifeVars, weekVars, goalVars>>

----------------------------------------------------------------------------
(* datetime.date                                                           *)

MINYEAR == 1
MAXYEAR == 9999

IsLeap(y) == y % 4 = 0 /\ (y % 100 # 0 \/ y % 400 = 0)

DaysInMonth(y, m) ==
    IF m = 2 THEN (IF IsLeap(y) THEN 29 ELSE 28)
    ELSE IF m \in {4, 6, 9, 11} THEN 30 ELSE 31

\* Days of the year before the first of month m
DaysBeforeMonth(y, m) ==
    <<0, 31, 59, 90, 120, 151, 181, 212, 243, 273, 304, 334>>[m]
        + (IF m > 2 /\ IsLeap(y) THEN 1 ELSE 0)

DaysBeforeYear(y) ==
    (y - 1) * 365 + (y - 1) \div 4 - (y - 1) \div 100 + (y - 1) \div 400

\* date(y, m, d).toordinal(), for a valid date
Ymd2Ord(y, m, d) == DaysBeforeYear(y) + DaysBeforeMonth(y, m) + d

MaxOrdinal == Ymd2Ord(MAXYEAR, 12, 31)

\* date.fromordinal(n).year
YearOf(n) ==
    LET n0   == n - 1
        n400 == n0 \div 146097
        r400 == n0 % 146097
        n100 == r400 \div 36524
        r100 == r400 % 36524
        n4   == r100 \div 1461
        r4   == r100 % 1461
        n1   == r4 \div 365
        y    == n400 * 400 + n100 * 100 + n4 * 4 + n1 + 1
    IN  IF n1 = 4 \/ n100 = 4 THEN y - 1 ELSE y

MonthOf(n) ==
    LET y == YearOf(n)
        k == n - DaysBeforeYear(y)
    IN  CHOOSE m \in 1..12 :
            /\ DaysBeforeMonth(y, m) < k
            /\ k <= DaysBeforeMonth(y, m) + DaysInMonth(y, m)

DayOf(n) ==
    LET y == YearOf(n)
    IN  n - DaysBeforeYear(y) - DaysBeforeMonth(y, MonthOf(n))

\* date.fromordinal(n), as the fields of the date
Ord2Ymd(n) == [year |-> YearOf(n), month |-> MonthOf(n), day |-> DayOf(n)]

\* d.toordinal()
ToOrd(d) == Ymd2Ord(d.year, d.month, d.day)

\* date.weekday(): Monday is 0
Weekday(n) == (n + 6) % 7

\* datetime.date(y, m, d): the date, or ValueError outside the calendar
NewDate(y, m, d) ==
    IF /\ y \in MINYEAR..MAXYEAR
       /\ m \in 1..12
       /\ d \in 1..DaysInMonth(y, m)
    THEN [exc |-> "none", ord |-> Ymd2Ord(y, m, d)]
    ELSE [exc |-> "ValueError", ord |-> 0]

\* date + timedelta(days): the date, or OverflowError outside the calendar
AddDays(n, days) ==
    IF n + days \in 1..MaxOrdinal
    THEN [exc |-> "none", ord |-> n + days]
    ELSE [exc |-> "OverflowError", ord |-> 0]

----------------------------------------------------------------------------
(* generate_life_calendar.py: date helpers                                 *)

get_monday(d) == d - Weekday(d)

\* is_future with the cutoff's own week start counted as past
is_future_Inclusive(now, when) == now <= when

is_future(now, when) == now < when

\* AnchorDate without the leap-day fallback
AnchorDate_NoFallback(year, month, day) == NewDate(year, month, day)

\* One iteration of the loop of is_current_week: the anchor date of `year`.
AnchorDate(year, month, day) ==
    LET first == NewDate(year, month, day)
    IN  IF first.exc = "none" THEN first
        ELSE IF month = 2 /\ day = 29 THEN NewDate(year, month, day - 1)
        ELSE first

\* is_current_week with the week's end included in the window
is_current_week_InclusiveEnd(now, month, day) ==
    LET end == AddDays(now, 7)
        a1  == AnchorDate(YearOf(now), month, day)
        a2  == AnchorDate(YearOf(now) + 1, month, day)
    IN  IF end.exc # "none" THEN [exc |-> end.exc, value |-> FALSE]
        ELSE IF a1.exc # "none" THEN [exc |-> a1.exc, value |-> FALSE]
        ELSE IF a2.exc # "none" THEN [exc |-> a2.exc, value |-> FALSE]
        ELSE [exc   |-> "none",
              value |-> \/ (now <= a1.ord /\ a1.ord <= end.ord)
                        \/ (now <= a2.ord /\ a2.ord <= end.ord)]

\* is_current_week(now, month, day): [exc, value]
is_current_week(now, month, day) ==
    LET end == AddDays(now, 7)
        a1  == AnchorDate(YearOf(now), month, day)
        a2  == AnchorDate(YearOf(now) + 1, month, day)
    IN  IF end.exc # "none" THEN [exc |-> end.exc, value |-> FALSE]
        ELSE IF a1.exc # "none" THEN [exc |-> a1.exc, value |-> FALSE]
        ELSE IF a2.exc # "none" THEN [exc |-> a2.exc, value |-> FALSE]
        ELSE [exc   |-> "none",
              value |-> \/ (now <= a1.ord /\ a1.ord < end.ord)
                        \/ (now <= a2.ord /\ a2.ord < end.ord)]

----------------------------------------------------------------------------
(* is_current_week applied to sampled week starts and anchors              *)

NumWeekStarts == 12

\* First days of the sampled runs of consecutive week starts: around the end
\* of February in leap and non-leap years, around New Year, and at the end
\* of the calendar.
WeekStartBases ==
    { Ymd2Ord(1900, 2, 20), Ymd2Ord(2023, 2, 20), Ymd2Ord(2024, 2, 20),
      Ymd2Ord(2022, 12, 24), Ymd2Ord(1990, 6, 8), Ymd2Ord(9998, 12, 21),
      Ymd2Ord(9999, 2, 20), Ymd2Ord(9999, 12, 21) }

WeekStarts ==
    { b + k : b \in WeekStartBases, k \in 0..(NumWeekStarts - 1) }
        \cap (1..MaxOrdinal)

\* (month, day) of valid calendar dates
Anchors == { <<2, 29>>, <<2, 28>>, <<3, 1>>, <<1, 1>>, <<12, 31>>, <<6, 15>> }

NotCalled == [called |-> FALSE, exc |-> "none", value |-> FALSE]

CallIsCurrentWeek ==
    /\ ~wResult.called
    /\ LET r == is_current_week(wNow, wMonth, wDay)
       IN  wResult' = [called |-> TRUE, exc |-> r.exc, value |-> r.value]
    /\ UNCHANGED <<wNow, wMonth, wDay>>
    /\ UNCHANGED <<lifeVars, goalVars>>

----------------------------------------------------------------------------
(* generate_life_calendar.py: layout and drawing                           *)

DOC_HEIGHT == 2383
Y_MARGIN == 144
BOX_MARGIN == 6
MIN_AGE == 80
MAX_AGE == 100
DEFAULT_AGE == 90
NUM_OF_WEEKS == 52

\* Fill colours are greys (r = g = b), held in tenths.
WHITE_FILL == 10
BIRTHDAY_COLOR == 5
NEWYEAR_COLOR == 8
DARKENED_COLOR_DELTA == -4

get_darkened_fill(fill) == fill + DARKENED_COLOR_DELTA

\* box_size of gen_calendar, ((DOC_HEIGHT - (Y_MARGIN + 36)) / rows) - BOX_MARGIN,
\* as the exact fraction num / den (den = rows > 0).
BoxSize(rows) ==
    [num |-> (DOC_HEIGHT - (Y_MARGIN + 36)) - BOX_MARGIN * rows, den |-> rows]

NoBoxSize == [num |-> 0, den |-> 0]

\* date += datetime.timedelta(weeks=1), in draw_row
NextWeek(d) == AddDays(d, 7)

\* The row stride as a 53-week year
NextRowMonday_53(d) == AddDays(d, 7 * 53)

\* monday += datetime.timedelta(weeks=52), in draw_grid
NextRowMonday(d) == AddDays(d, 7 * 52)

\* BoxFill with New Year tested before the birthday
BoxFill_NewYearFirst(now, birth, darken) ==
    LET bday == is_current_week(now, birth.month, birth.day)
        newy == is_current_week(now, 1, 1)
        fill == IF newy.value THEN NEWYEAR_COLOR
                ELSE IF bday.value THEN BIRTHDAY_COLOR
                ELSE WHITE_FILL
    IN  IF bday.exc # "none" THEN [exc |-> bday.exc, fill |-> 0]
        ELSE IF darken.kind = "none" THEN [exc |-> "none", fill |-> fill]
        ELSE IF darken.kind = "datetime" THEN [exc |-> "TypeError", fill |-> 0]
        ELSE IF is_future(now, darken.ord)
             THEN [exc |-> "none", fill |-> get_darkened_fill(fill)]
        ELSE [exc |-> "none", fill |-> fill]

\* The fill draw_row gives the box of the week starting at `now`:
\* [exc, fill], exc naming the exception raised instead.
BoxFill(now, birth, darken) ==
    LET bday == is_current_week(now, birth.month, birth.day)
        newy == is_current_week(now, 1, 1)
        fill == IF bday.value THEN BIRTHDAY_COLOR
                ELSE IF newy.value THEN NEWYEAR_COLOR
                ELSE WHITE_FILL
    IN  IF bday.exc # "none" THEN [exc |-> bday.exc, fill |-> 0]
        ELSE IF ~bday.value /\ newy.exc # "none"
             THEN [exc |-> newy.exc, fill |-> 0]
        ELSE IF darken.kind = "none" THEN [exc |-> "none", fill |-> fill]
        \* a date does not order-compare with a datetime
        ELSE IF darken.kind = "datetime" THEN [exc |-> "TypeError", fill |-> 0]
        ELSE IF is_future(now, darken.ord)
             THEN [exc |-> "none", fill |-> get_darkened_fill(fill)]
        ELSE [exc |-> "none", fill |-> fill]

----------------------------------------------------------------------------
(* generate_life_calendar.py: the run                                      *)

NumBirthDays == 7

\* The birth dates tried: the specification's example, leap days (one before
\* the year 1900, which is no leap year), New Year's Day and Eve, a birth
\* late in the calendar, and a run of consecutive days over a year's end.
BirthDates ==
    { [year |-> 1990, month |-> 6, day |-> 15],
      [year |-> 2000, month |-> 2, day |-> 29],
      [year |-> 1896, month |-> 2, day |-> 29],
      [year |-> 2001, month |-> 1, day |-> 1],
      [year |-> 1985, month |-> 12, day |-> 31],
      [year |-> 9950, month |-> 1, day |-> 1] }
    \cup { Ord2Ymd(Ymd2Ord(1987, 12, 28) + k) : k \in 0..(NumBirthDays - 1) }

ExampleBirth == [year |-> 1990, month |-> 6, day |-> 15]

\* Values of date.today(), the default of --darken-until
Today1 == Ymd2Ord(2024, 1, 1)
Today2 == Ymd2Ord(2010, 7, 15)

\* Row counts given to gen_calendar by a caller other than main()
CallerRowCounts == {0, 368}

\* main(): the arguments as generate_parser() parses them (--darken-until is
\* a datetime when given and date.today() otherwise), or gen_calendar()
\* called with a row count of the caller's and no cutoff.
LifeArgs ==
    { <<"main", b, MAX_AGE, [kind |-> k, ord |-> Today1]>> :
          b \in BirthDates, k \in {"date", "datetime"} }
    \cup { <<"main", ExampleBirth, a, [kind |-> "date", ord |-> t]>> :
          a \in {MIN_AGE, DEFAULT_AGE, MAX_AGE}, t \in {Today1, Today2} }
    \cup { <<"gen_calendar", ExampleBirth, n, [kind |-> "none", ord |-> 0]>> :
          n \in CallerRowCounts }

NoDate == [year |-> 0, month |-> 0, day |-> 0]

args == <<entry, birthdate, life_expectancy, darken_until_date>>

LifeOnly == UNCHANGED <<weekVars, goalVars>>

\* gen_calendar up to its first draw call: the surface, the context, box_size
GenCalendar ==
    /\ pc = "gen_calendar"
    /\ IF life_expectancy = 0
       THEN /\ pc' = "failed"
            /\ error' = "ZeroDivisionError"
            /\ UNCHANGED box_size
       ELSE /\ pc' = "draw_canvas"
            /\ box_size' = BoxSize(life_expectancy)
            /\ UNCHANGED error
    /\ UNCHANGED <<args, drawn, monday, rowsDrawn, idx, date, rowCells>>
    /\ LifeOnly

Draw(at, what, then) ==
    /\ pc = at
    /\ pc' = then
    /\ drawn' = Append(drawn, what)
    /\ UNCHANGED <<args, box_size, monday, rowsDrawn, idx, date, rowCells,
                   error>>
    /\ LifeOnly

DrawCanvas == Draw("draw_canvas", "draw_canvas", "draw_title")

DrawTitle == Draw("draw_title", "draw_title", "draw_subtitle")

\* main() passes args.subtitle or str(args.date): never empty
DrawSubtitle == Draw("draw_subtitle", "draw_subtitle", "draw_legend")

DrawLegend == Draw("draw_legend", "draw_legend", "draw_week_numbers")

DrawWeekNumbers ==
    Draw("draw_week_numbers", "draw_week_numbers", "draw_year_numbers")

DrawYearNumbers == Draw("draw_year_numbers", "draw_year_numbers", "draw_grid")

\* draw_grid, before its loop
DrawGrid ==
    /\ pc = "draw_grid"
    /\ pc' = "grid_loop"
    /\ monday' = get_monday(ToOrd(birthdate))
    /\ rowsDrawn' = 0
    /\ UNCHANGED <<args, box_size, drawn, idx, date, rowCells, error>>
    /\ LifeOnly

\* The loop of draw_grid calls draw_row for the next row
DrawRow ==
    /\ pc = "grid_loop"
    /\ rowsDrawn < life_expectancy
    /\ pc' = "draw_row"
    /\ idx' = 1
    /\ date' = monday
    /\ UNCHANGED <<args, box_size, drawn, monday, rowsDrawn, rowCells, error>>
    /\ LifeOnly

\* One iteration of the loop of draw_row: classify the week, draw its box,
\* step to the next week. rowCells holds the boxes of the row being drawn
\* (those of the row before it until this row's first box is drawn).
DrawBox ==
    /\ pc = "draw_row"
    /\ idx <= NUM_OF_WEEKS
    /\ LET f    == BoxFill(date, birthdate, darken_until_date)
           box  == [row |-> rowsDrawn, col |-> idx - 1, date |-> date,
                    fill |-> f.fill]
           row  == IF idx = 1 THEN <<box>> ELSE Append(rowCells, box)
           next == NextWeek(date)
       IN  IF f.exc # "none"
           THEN /\ pc' = "failed"
                /\ error' = f.exc
                /\ UNCHANGED <<rowCells, idx, date>>
           ELSE IF next.exc # "none"
           THEN /\ pc' = "failed"
                /\ error' = next.exc
                /\ rowCells' = row
                /\ UNCHANGED <<idx, date>>
           ELSE /\ rowCells' = row
                /\ date' = next.ord
                /\ idx' = idx + 1
                /\ UNCHANGED <<pc, error>>
    /\ UNCHANGED <<args, box_size, drawn, monday, rowsDrawn>>
    /\ LifeOnly

\* draw_row returns; draw_grid steps to the next row
DrawRowReturn ==
    /\ pc = "draw_row"
    /\ idx > NUM_OF_WEEKS
    /\ rowsDrawn' = rowsDrawn + 1
    /\ LET next == NextRowMonday(monday)
       IN  IF next.exc # "none"
           THEN /\ pc' = "failed"
                /\ error' = next.exc
                /\ UNCHANGED monday
           ELSE /\ pc' = "grid_loop"
                /\ monday' = next.ord
                /\ UNCHANGED error
    /\ UNCHANGED <<args, box_size, drawn, idx, date, rowCells>>
    /\ LifeOnly

\* draw_grid returns; draw_sidebar draws nothing without --sidebar-text
DrawGridReturn ==
    /\ pc = "grid_loop"
    /\ rowsDrawn >= life_expectancy
    /\ pc' = "show_page"
    /\ drawn' = Append(drawn, "draw_grid")
    /\ UNCHANGED <<args, box_size, monday, rowsDrawn, idx, date, rowCells,
                   error>>
    /\ LifeOnly

ShowPage ==
    /\ pc = "show_page"
    /\ pc' = "done"
    /\ UNCHANGED <<args, box_size, drawn, monday, rowsDrawn, idx, date,
                   rowCells, error>>
    /\ LifeOnly

NextLife ==
    \/ GenCalendar
    \/ DrawCanvas
    \/ DrawTitle
    \/ DrawSubtitle
    \/ DrawLegend
    \/ DrawWeekNumbers
    \/ DrawYearNumbers
    \/ DrawGrid
    \/ DrawRow
    \/ DrawBox
    \/ DrawRowReturn
    \/ DrawGridReturn
    \/ ShowPage

----------------------------------------------------------------------------
(* generate_goal.py: the drawing context                                   *)

\* The context's transform is the sequence of the transformations applied
\* to it: lengths in thousandths, angles in 72nds of a turn (2*pi / (12*6)).
\* A graphics state g is [ctm, stack], the stack holding the saved transforms.
Translate(g, tx, ty) ==
    [g EXCEPT !.ctm = Append(@, [op |-> "translate", a |-> tx, b |-> ty])]

Rotate(g, angle) ==
    [g EXCEPT !.ctm = Append(@, [op |-> "rotate", a |-> angle, b |-> 0])]

Scale(g, sx, sy) ==
    [g EXCEPT !.ctm = Append(@, [op |-> "scale", a |-> sx, b |-> sy])]

\* ctx.translate(-width / 2, height / 2), by the extents of the month's name
TranslateText(g, month) ==
    [g EXCEPT !.ctm = Append(@, [op |-> "translate_text", a |-> month, b |-> 0])]

Save(g) == [g EXCEPT !.stack = Append(@, g.ctm)]

Restore(g) ==
    IF g.stack = <<>> THEN g
    ELSE [ctm   |-> g.stack[Len(g.stack)],
          stack |-> SubSeq(g.stack, 1, Len(g.stack) - 1)]

----------------------------------------------------------------------------
(* generate_goal.py: the month grids                                       *)

MONDAY == 0
SUNDAY == 6
PIXEL_SCALE == 1000
START_ANGLE == 270

\* calendar.Calendar(): the first weekday is the constructor's default
Calendar == [firstweekday |-> MONDAY]

\* cal.monthdatescalendar(year, month): [exc, weeks], the weeks being the
\* full weeks (7 dates each) that cover the month
monthdatescalendar(cal, year, month) ==
    LET day1   == Weekday(Ymd2Ord(year, month, 1))
        ndays  == DaysInMonth(year, month)
        before == (day1 - cal.firstweekday) % 7
        after  == (cal.firstweekday - day1 - ndays) % 7
        first  == Ymd2Ord(year, month, 1) - before
        n      == before + ndays + after
    IN  IF first < 1 \/ first + n - 1 > MaxOrdinal
        THEN [exc |-> "ValueError", weeks |-> <<>>]
        ELSE [exc   |-> "none",
              weeks |-> [w \in 1..(n \div 7) |->
                            [k \in 1..7 |-> first + 7 * (w - 1) + (k - 1)]]]

\* PadWeeks leaving the days of the neighbouring months in
PadWeeks_None(ws, month) == ws

\* weeks = [[day if day.month == month else 0 for day in week] for week in weeks]
PadWeeks(ws, month) ==
    [w \in 1..Len(ws) |->
        [k \in 1..7 |-> IF MonthOf(ws[w][k]) = month THEN ws[w][k] ELSE 0]]

\* The box draw_days draws for `day`
DayBox(today, day) ==
    IF day = 0 THEN [border |-> "white", background |-> "white"]
    ELSE IF day < today THEN [border |-> "black", background |-> "black"]
    ELSE [border |-> "black", background |-> "white"]

\* The transform after the boxes of k days of a row
RECURSIVE AfterBoxes(_, _)
AfterBoxes(g, k) ==
    IF k = 0 THEN g ELSE AfterBoxes(Translate(g, 1200, 0), k - 1)

\* draw_days without its ctx.restore()
draw_days_NoRestore(g, today, days) ==
    [g     |-> AfterBoxes(Scale(Save(g), 50, 50), Len(days)),
     cells |-> [k \in 1..Len(days) |-> DayBox(today, days[k])]]

\* draw_days(ctx, date, days): [g, cells]
draw_days(g, today, days) ==
    [g     |-> Restore(AfterBoxes(Scale(Save(g), 50, 50), Len(days))),
     cells |-> [k \in 1..Len(days) |-> DayBox(today, days[k])]]

\* draw_month_names: none of its transformations is scoped
draw_month_names(g, month) ==
    TranslateText(Rotate(Translate(g, 550, 150), 18 - 6 * (month - 1)), month)

----------------------------------------------------------------------------
(* generate_goal.py: the run                                               *)

NumGoalDays == 4

\* The reference dates tried (--date, or date.today())
GoalDates ==
    { Ymd2Ord(2010, 2, 10), Ymd2Ord(2023, 12, 31), Ymd2Ord(1, 1, 1),
      Ymd2Ord(9999, 6, 1) }
    \cup { Ymd2Ord(2024, 2, 27) + k : k \in 0..(NumGoalDays - 1) }

gs == [ctm |-> ctm, stack |-> stack]

GoalOnly == UNCHANGED <<lifeVars, weekVars>>

\* The script's body before main(): --sunday sets the first weekday of the
\* calendar module
SetFirstWeekday ==
    /\ gpc = "start"
    /\ gpc' = "main"
    /\ firstweekday' = IF sunday THEN SUNDAY ELSE firstweekday
    /\ UNCHANGED <<goalDate, sunday, ctm, stack, monthIdx, weeks, weekIdx,
                   monthCells, gError>>
    /\ GoalOnly

\* main() up to draw_circle, and draw_circle up to its loop
DrawCircle ==
    /\ gpc = "main"
    /\ gpc' = "sector"
    /\ LET g == Rotate(Translate(Scale(gs, PIXEL_SCALE, PIXEL_SCALE),
                                 1500, 1500),
                       (START_ANGLE * 72) \div 360)
       IN  ctm' = g.ctm /\ stack' = g.stack
    /\ monthIdx' = 1
    /\ UNCHANGED <<goalDate, sunday, firstweekday, weeks, weekIdx, monthCells,
                   gError>>
    /\ GoalOnly

\* One iteration of the loop of draw_circle, up to draw_boxes
Sector ==
    /\ gpc = "sector"
    /\ monthIdx <= 12
    /\ gpc' = "draw_boxes"
    /\ LET g == Translate(Rotate(Save(gs), 6 * (monthIdx - 1)), 750, 0)
       IN  ctm' = g.ctm /\ stack' = g.stack
    /\ UNCHANGED <<goalDate, sunday, firstweekday, monthIdx, weeks, weekIdx,
                   monthCells, gError>>
    /\ GoalOnly

\* draw_boxes up to its loop
DrawBoxes ==
    /\ gpc = "draw_boxes"
    /\ LET m == monthdatescalendar(Calendar, YearOf(goalDate), monthIdx)
           g == Translate(Save(gs), 0, 20)
       IN  IF m.exc # "none"
           THEN /\ gpc' = "failed"
                /\ gError' = m.exc
                /\ UNCHANGED <<ctm, stack, weeks, weekIdx, monthCells>>
           ELSE /\ gpc' = "draw_days"
                /\ weeks' = PadWeeks(m.weeks, monthIdx)
                /\ weekIdx' = 1
                /\ monthCells' = <<>>
                /\ ctm' = g.ctm /\ stack' = g.stack
                /\ UNCHANGED gError
    /\ UNCHANGED <<goalDate, sunday, firstweekday, monthIdx>>
    /\ GoalOnly

\* One iteration of the loop of draw_boxes
DrawDays ==
    /\ gpc = "draw_days"
    /\ weekIdx <= Len(weeks)
    /\ LET r == draw_days(gs, goalDate, weeks[weekIdx])
           g == Translate(Rotate(r.g, 1), 2, 60)
       IN  /\ monthCells' = Append(monthCells, r.cells)
           /\ ctm' = g.ctm /\ stack' = g.stack
    /\ weekIdx' = weekIdx + 1
    /\ UNCHANGED <<gpc, goalDate, sunday, firstweekday, monthIdx, weeks,
                   gError>>
    /\ GoalOnly

\* draw_boxes returns
BoxesReturn ==
    /\ gpc = "draw_days"
    /\ weekIdx > Len(weeks)
    /\ gpc' = "draw_month_names"
    /\ LET g == Restore(gs)
       IN  ctm' = g.ctm /\ stack' = g.stack
    /\ UNCHANGED <<goalDate, sunday, firstweekday, monthIdx, weeks, weekIdx,
                   monthCells, gError>>
    /\ GoalOnly

DrawMonthNames ==
    /\ gpc = "draw_month_names"
    /\ gpc' = "sector_end"
    /\ LET g == draw_month_names(gs, monthIdx)
       IN  ctm' = g.ctm /\ stack' = g.stack
    /\ UNCHANGED <<goalDate, sunday, firstweekday, monthIdx, weeks, weekIdx,
                   monthCells, gError>>
    /\ GoalOnly

\* The end of an iteration of the loop of draw_circle
SectorEnd ==
    /\ gpc = "sector_end"
    /\ gpc' = "sector"
    /\ LET g == Restore(gs)
       IN  ctm' = g.ctm /\ stack' = g.stack
    /\ monthIdx' = monthIdx + 1
    /\ UNCHANGED <<goalDate, sunday, firstweekday, weeks, weekIdx, monthCells,
                   gError>>
    /\ GoalOnly

\* draw_circle and main() return
GoalDone ==
    /\ gpc = "sector"
    /\ monthIdx > 12
    /\ gpc' = "done"
    /\ UNCHANGED <<goalDate, sunday, firstweekday, ctm, stack, monthIdx, weeks,
                   weekIdx, monthCells, gError>>
    /\ GoalOnly

NextGoal ==
    \/ SetFirstWeekday
    \/ DrawCircle
    \/ Sector
    \/ DrawBoxes
    \/ DrawDays
    \/ BoxesReturn
    \/ DrawMonthNames
    \/ SectorEnd
    \/ GoalDone

----------------------------------------------------------------------------
(* The specifications                                                      *)

\* One run of generate_life_calendar.py
InitLife ==
    /\ pc = "gen_calendar"
    /\ \E a \in LifeArgs :
          /\ entry = a[1]
          /\ birthdate = a[2]
          /\ life_expectancy = a[3]
          /\ darken_until_date = a[4]
    /\ box_size = NoBoxSize
    /\ drawn = <<>>
    /\ monday = 0
    /\ rowsDrawn = 0
    /\ idx = 0
    /\ date = 0
    /\ rowCells = <<>>
    /\ error = "none"
    /\ wNow = 1
    /\ wMonth = 1
    /\ wDay = 1
    /\ wResult = NotCalled
    /\ gpc = "idle"
    /\ goalDate = 1
    /\ sunday = FALSE
    /\ firstweekday = MONDAY
    /\ ctm = <<>>
    /\ stack = <<>>
    /\ monthIdx = 0
    /\ weeks = <<>>
    /\ weekIdx = 0
    /\ monthCells = <<>>
    /\ gError = "none"

SpecLife == InitLife /\ [][NextLife]_vars

\* One call of is_current_week
InitWeek ==
    /\ wNow \in WeekStarts
    /\ \E a \in Anchors : wMonth = a[1] /\ wDay = a[2]
    /\ wResult = NotCalled
    /\ pc = "idle"
    /\ entry = "none"
    /\ birthdate = NoDate
    /\ life_expectancy = 0
    /\ darken_until_date = [kind |-> "none", ord |-> 0]
    /\ box_size = NoBoxSize
    /\ drawn = <<>>
    /\ monday = 0
    /\ rowsDrawn = 0
    /\ idx = 0
    /\ date = 0
    /\ rowCells = <<>>
    /\ error = "none"
    /\ gpc = "idle"
    /\ goalDate = 1
    /\ sunday = FALSE
    /\ firstweekday = MONDAY
    /\ ctm = <<>>
    /\ stack = <<>>
    /\ monthIdx = 0
    /\ weeks = <<>>
    /\ weekIdx = 0
    /\ monthCells = <<>>
    /\ gError = "none"

SpecWeek == InitWeek /\ [][CallIsCurrentWeek]_vars

\* One run of generate_goal.py
InitGoal ==
    /\ gpc = "start"
    /\ goalDate \in GoalDates
    /\ sunday \in BOOLEAN
    /\ firstweekday = MONDAY
    /\ ctm = <<>>
    /\ stack = <<>>
    /\ monthIdx = 0
    /\ weeks = <<>>
    /\ weekIdx = 0
    /\ monthCells = <<>>
    /\ gError = "none"
    /\ pc = "idle"
    /\ entry = "none"
    /\ birthdate = NoDate
    /\ life_expectancy = 0
    /\ darken_until_date = [kind |-> "none", ord |-> 0]
    /\ box_size = NoBoxSize
    /\ drawn = <<>>
    /\ monday = 0
    /\ rowsDrawn = 0
    /\ idx = 0
    /\ date = 0
    /\ rowCells = <<>>
    /\ error = "none"
    /\ wNow = 1
    /\ wMonth = 1
    /\ wDay = 1
    /\ wResult = NotCalled

SpecGoal == InitGoal /\ [][NextGoal]_vars

----------------------------------------------------------------------------
(* What the claims speak of                                                *)

\* The day of month a (month, day) anchor falls on in year y
ResolvedDay(y, m, d) == IF m = 2 /\ d = 29 /\ ~IsLeap(y) THEN 28 ELSE d

\* The 7 days from `now` on include the anchor of the year they lie in
WindowHasAnchor(now, m, d) ==
    \E k \in 0..6 :
        /\ now + k <= MaxOrdinal
        /\ MonthOf(now + k) = m
        /\ DayOf(now + k) = ResolvedDay(YearOf(now + k), m, d)

Category(fill) ==
    IF fill \in {BIRTHDAY_COLOR, get_darkened_fill(BIRTHDAY_COLOR)}
    THEN "birthday"
    ELSE IF fill \in {NEWYEAR_COLOR, get_darkened_fill(NEWYEAR_COLOR)}
    THEN "new-year"
    ELSE "plain"

Darkened(fill) ==
    fill \in { get_darkened_fill(c) :
                 c \in {WHITE_FILL, BIRTHDAY_COLOR, NEWYEAR_COLOR} }

CutoffSet == darken_until_date.kind # "none"

FirstMonday == get_monday(ToOrd(birthdate))

\* The box drawn last
LastBox == rowCells[Len(rowCells)]

BirthdayCells ==
    { i \in 1..Len(rowCells) : Category(rowCells[i].fill) = "birthday" }

----------------------------------------------------------------------------
(* The claims                                                              *)

\* C1: for a life expectancy in 80..100, every row draw_row has drawn in
\* full holds exactly one birthday cell, and no row, full or not, holds two.
C1_OneBirthdayPerRow ==
    life_expectancy \in MIN_AGE..MAX_AGE =>
        /\ Cardinality(BirthdayCells) <= 1
        /\ Len(rowCells) = NUM_OF_WEEKS => Cardinality(BirthdayCells) = 1

\* A full row of a leap-day birth whose birthday cell is the week of a
\* 28 February (a year that is no leap year)
C1_Witness ==
    /\ life_expectancy \in MIN_AGE..MAX_AGE
    /\ birthdate.month = 2 /\ birthdate.day = 29
    /\ pc = "grid_loop"
    /\ Len(rowCells) = NUM_OF_WEEKS
    /\ \E i \in BirthdayCells :
          /\ ~IsLeap(YearOf(rowCells[i].date + 6))
          /\ WindowHasAnchor(rowCells[i].date, 2, 28)

\* C2: a box drawn is a birthday box exactly when its week holds the birth
\* anniversary, a New Year box exactly when its week holds 1 January and not
\* the anniversary, and plain otherwise. (Every box is the box drawn last in
\* the state its drawing leads to.)
C2_Priority ==
    rowCells # <<>> =>
        LET hasB == WindowHasAnchor(LastBox.date, birthdate.month, birthdate.day)
            hasN == WindowHasAnchor(LastBox.date, 1, 1)
        IN  Category(LastBox.fill) = IF hasB THEN "birthday"
                                     ELSE IF hasN THEN "new-year"
                                     ELSE "plain"

\* A birthday box whose week holds 1 January too, the birthday being another
\* day
C2_Witness ==
    /\ ~(birthdate.month = 1 /\ birthdate.day = 1)
    /\ rowCells # <<>>
    /\ Category(LastBox.fill) = "birthday"
    /\ WindowHasAnchor(LastBox.date, 1, 1)
    /\ WindowHasAnchor(LastBox.date, birthdate.month, birthdate.day)

\* C3: a box drawn is darkened exactly when a cutoff is set and the box's
\* Monday is strictly before it, whatever its category; the darkened boxes
\* are a prefix of the grid: a darkened box follows a darkened box in its
\* row, and a row starts darkened only after a row that ended darkened.
C3_CellDarkening ==
    /\ rowCells # <<>> =>
          (Darkened(LastBox.fill) <=>
              (CutoffSet /\ LastBox.date < darken_until_date.ord))
    /\ \A i \in 2..Len(rowCells) :
          Darkened(rowCells[i].fill) => Darkened(rowCells[i - 1].fill)

C3_RowStart ==
    (/\ pc = "draw_row" /\ idx = 1 /\ rowsDrawn > 0
     /\ Len(rowCells) = NUM_OF_WEEKS
     /\ rowCells' # rowCells
     /\ Darkened(rowCells'[1].fill))
        => Darkened(rowCells[NUM_OF_WEEKS].fill)

\* C3: both parts, in every state and at every step of a run
C3_Darkening == [](C3_CellDarkening) /\ [][C3_RowStart]_vars

\* A row where the box of the cutoff's own Monday is not darkened, the box
\* before it is, and a darkened box is a birthday box
C3_Witness ==
    /\ CutoffSet
    /\ \E i \in 2..Len(rowCells) :
          /\ rowCells[i].date = darken_until_date.ord
          /\ ~Darkened(rowCells[i].fill)
          /\ Darkened(rowCells[i - 1].fill)
    /\ \E i \in BirthdayCells : Darkened(rowCells[i].fill)

\* C4, as stated: is_current_week raises for no week start and no anchor of a
\* valid date, and is true exactly when the week holds the resolved anchor.
C4_NeverRaises ==
    wResult.called =>
        /\ wResult.exc = "none"
        /\ wResult.value <=> WindowHasAnchor(wNow, wMonth, wDay)

\* C4, amended: the same for week starts in a year before MAXYEAR; in the
\* year MAXYEAR the call raises (the anchor of the following year is no date,
\* or the week's end is none).
C4_NeverRaisesBeforeMaxYear ==
    wResult.called =>
        IF YearOf(wNow) < MAXYEAR
        THEN /\ wResult.exc = "none"
             /\ wResult.value <=> WindowHasAnchor(wNow, wMonth, wDay)
        ELSE wResult.exc \in {"ValueError", "OverflowError"}

\* The leap-day anchor found in the week of 28 February 2023
C4_Witness ==
    /\ wResult.called
    /\ wMonth = 2 /\ wDay = 29
    /\ YearOf(wNow) = 2023
    /\ wResult.exc = "none"
    /\ wResult.value

\* C5, as stated: a run of main() that fails has drawn nothing.
C5_FailBeforeDrawing ==
    (entry = "main" /\ pc = "failed") => (drawn = <<>> /\ rowCells = <<>>)

\* C6, as stated: a box size that is not positive makes gen_calendar fail
\* with LayoutInfeasible, nothing of the grid drawn.
C6_LayoutInfeasible ==
    (box_size.den > 0 /\ box_size.num <= 0) =>
        /\ pc = "failed"
        /\ error = "LayoutInfeasible"
        /\ rowCells = <<>>

\* C7: the box at row r, column c is that of the week FirstMonday +
\* (52 r + c) weeks, a Monday; rows are drawn in order, 52 boxes each, and a
\* grid drawn in full has life_expectancy rows.
C7_Grid ==
    /\ rowCells # <<>> =>
          /\ LastBox.col = Len(rowCells) - 1
          /\ LastBox.row = rowCells[1].row
          /\ LastBox.date =
                FirstMonday + 7 * (NUM_OF_WEEKS * LastBox.row + LastBox.col)
          /\ Weekday(LastBox.date) = 0
    /\ Len(rowCells) <= NUM_OF_WEEKS
    /\ (pc = "draw_row" /\ idx > 1) =>
          /\ Len(rowCells) = idx - 1
          /\ rowCells[1].row = rowsDrawn
    /\ (pc \in {"grid_loop", "show_page", "done"} /\ rowsDrawn > 0) =>
          /\ Len(rowCells) = NUM_OF_WEEKS
          /\ rowCells[1].row = rowsDrawn - 1
    /\ pc \in {"show_page", "done"} => rowsDrawn = life_expectancy

\* The grid of a 100-year calendar drawn in full
C7_Witness ==
    /\ pc = "done"
    /\ life_expectancy = MAX_AGE
    /\ rowsDrawn = MAX_AGE
    /\ Len(rowCells) = NUM_OF_WEEKS
    /\ rowCells[NUM_OF_WEEKS].date = FirstMonday + 7 * (NUM_OF_WEEKS * MAX_AGE - 1)

----------------------------------------------------------------------------
(* The claims on generate_goal.py                                          *)

\* draw_boxes has returned for month monthIdx
MonthGridDrawn == gpc = "draw_month_names"

GoalYear == YearOf(goalDate)

MonthFirst == Ymd2Ord(GoalYear, monthIdx, 1)

InMonth(n) == n \in MonthFirst..(MonthFirst + DaysInMonth(GoalYear, monthIdx) - 1)

\* The day at row w, column k of the weeks that start on `first` (a weekday)
\* and overlap the month
GridDay(first, w, k) ==
    MonthFirst - ((Weekday(MonthFirst) - first) % 7) + 7 * (w - 1) + (k - 1)

GridCells == { <<w, k>> : w \in 1..Len(weeks), k \in 1..7 }

\* C8: the grid drawn for a month is the Monday-start weeks overlapping it:
\* 4 to 6 rows of 7 boxes, each day of the month once and in order, a box
\* empty exactly when its day is outside the month, a day's box filled
\* exactly when the day is before the reference date; February 2024 has 5
\* rows, the first starting with empty boxes.
C8_MonthGrid ==
    MonthGridDrawn =>
        /\ Len(weeks) \in 4..6
        /\ Len(monthCells) = Len(weeks)
        /\ \A w \in 1..Len(weeks) : Len(weeks[w]) = 7 /\ Len(monthCells[w]) = 7
        /\ \A c \in GridCells :
              LET day == GridDay(MONDAY, c[1], c[2])
                  box == monthCells[c[1]][c[2]]
              IN  /\ weeks[c[1]][c[2]] = IF InMonth(day) THEN day ELSE 0
                  /\ box.border = "white" <=> ~InMonth(day)
                  /\ ~InMonth(day) => box.background = "white"
                  /\ InMonth(day) =>
                        (box.background = "black" <=> day < goalDate)
        /\ Cardinality({ c \in GridCells : weeks[c[1]][c[2]] # 0 })
              = DaysInMonth(GoalYear, monthIdx)
        /\ \E k \in 1..7 : weeks[1][k] # 0
        /\ \E k \in 1..7 : weeks[Len(weeks)][k] # 0
        /\ (GoalYear = 2024 /\ monthIdx = 2) =>
              /\ Len(weeks) = 5
              /\ monthCells[1][1].border = "white"

\* February 2024 drawn with a reference date inside it: 5 rows, the first
\* starting empty, a filled and an unfilled day
C8_Witness ==
    /\ MonthGridDrawn
    /\ GoalYear = 2024 /\ monthIdx = 2
    /\ Len(monthCells) = 5
    /\ monthCells[1][1].border = "white"
    /\ monthCells[1][4] = [border |-> "black", background |-> "black"]
    /\ monthCells[5][4] = [border |-> "black", background |-> "white"]

\* C9, as stated: with --sunday every week row of a month grid starts on a
\* Sunday.
C9_SundayRows ==
    (sunday /\ MonthGridDrawn) =>
        \A c \in GridCells :
            weeks[c[1]][c[2]] = IF InMonth(GridDay(SUNDAY, c[1], c[2]))
                                THEN GridDay(SUNDAY, c[1], c[2]) ELSE 0

BaseTransform ==
    << [op |-> "scale", a |-> PIXEL_SCALE, b |-> PIXEL_SCALE],
       [op |-> "translate", a |-> 1500, b |-> 1500],
       [op |-> "rotate", a |-> 54, b |-> 0] >>

SectorTransform ==
    BaseTransform \o << [op |-> "rotate", a |-> 6 * (monthIdx - 1), b |-> 0],
                        [op |-> "translate", a |-> 750, b |-> 0] >>

\* The steps from one week row to the next, n times
RowSteps(n) ==
    [i \in 1..(2 * n) |->
        IF i % 2 = 1 THEN [op |-> "rotate", a |-> 1, b |-> 0]
        ELSE [op |-> "translate", a |-> 2, b |-> 60]]

\* C10: each sector starts under the base transform with nothing saved,
\* whatever the sectors before it did; inside a sector the saved transforms
\* are those of the scopes open (the sector's, the month grid's), a week row
\* leaves the transform as it found it, the month grid's scope ends on the
\* sector's transform, and the run ends with nothing saved.
C10_Balanced ==
    /\ gpc \in {"sector", "done"} =>
          stack = <<>> /\ ctm = BaseTransform
    /\ gpc \in {"draw_boxes", "draw_month_names"} =>
          stack = <<BaseTransform>> /\ ctm = SectorTransform
    /\ gpc = "draw_days" =>
          /\ stack = <<BaseTransform, SectorTransform>>
          /\ ctm = SectorTransform
                     \o << [op |-> "translate", a |-> 0, b |-> 20] >>
                     \o RowSteps(weekIdx - 1)
    /\ gpc = "sector_end" =>
          stack = <<BaseTransform>> /\ ctm # SectorTransform

\* October starts under the base transform after a September of 6 week rows
C10_Witness ==
    /\ gpc = "sector"
    /\ monthIdx = 10
    /\ Len(monthCells) = 6
    /\ stack = <<>>
    /\ ctm = BaseTransform

====
